---- MODULE Spec2Model ----
(***************************************************************************)
(* A model of two utilities of the Predicting-Vulnerable-Code repository:  *)
(*                                                                         *)
(*  - Union_SMwithASA.py: the join of the software-metrics dataset with    *)
(*    the static-analysis (ASA) dataset, modelled character by character   *)
(*    (a line is a sequence of one-character strings, a file a sequence of *)
(*    lines, the output a sequence of the strings handed to write());      *)
(*  - RepoMining.py: the mining wrapper (setDefaultPath, setDefaultDir,    *)
(*    startMining, exist) over a directory tree and a commit sequence.     *)
(***************************************************************************)
EXTENDS Integers, Sequences, FiniteSets, TLC

VARIABLES
    \* ---- Union_SMwithASA.initialize ----
    csv_sm,                    \* the software-metrics file: a sequence of lines
    csv_asa,                   \* the static-analysis file: a sequence of lines
    new_Union,                 \* the destination file: the strings written, in order
    sm_pos,                    \* index of the line `for line_sm in csv_sm` reads next
    asa_pos,                   \* index of the line csv_asa yields next
    pc,                        \* position in initialize
    error,                     \* the exception that ended initialize, or "none"
    found, flag_sm, flag_asa, number_of_file,
    file_name_sm, class_element, element_software_metrics,
    \* ---- RepoMining ----
    operatingSys,              \* platform.system()
    fs_dirs,                   \* the directories that exist
    fs_files,                  \* the files that exist: directory, name, content
    os_cwd,                    \* the working directory of the process
    mods,                      \* the modifications traverse_commits() yields, in order
    mpc,                       \* "idle", or "traverse" inside startMining
    call,                      \* the call in progress
    cwd, allClass, javaFile, mod_pos,      \* locals of startMining
    classMined, allCommit,     \* attributes of RepoMining
    returned                   \* what each call made so far ended with

joinVars == <<csv_sm, csv_asa, new_Union, sm_pos, asa_pos, pc, error, found,
              flag_sm, flag_asa, number_of_file, file_name_sm, class_element,
              element_software_metrics>>

mineVars == <<operatingSys, fs_dirs, fs_files, os_cwd, mods, mpc, call, cwd,
              allClass, javaFile, mod_pos, classMined, allCommit, returned>>

vars == <<joinVars, mineVars>>

-----------------------------------------------------------------------------
(* Characters and the Python string and list primitives the script uses.   *)

COMMA == ","
NL == "\n"
QUOTE == "\""
SPACE == " "

Min(a, b) == IF a < b THEN a ELSE b

\* str.split(sep): the substrings between the separators; never empty.
Split(s, sep) ==
    LET RECURSIVE go(_, _, _)
        go(i, cur, acc) ==
            IF i > Len(s) THEN Append(acc, cur)
            ELSE IF s[i] = sep THEN go(i + 1, <<>>, Append(acc, cur))
            ELSE go(i + 1, Append(cur, s[i]), acc)
    IN go(1, <<>>, <<>>)

\* str.replace(old, ""): every occurrence of the character removed.
Replace(s, old) == SelectSeq(s, LAMBDA c : c # old)

\* x in lista
Contains(lista, x) == \E i \in 1..Len(lista) : lista[i] = x

\* list.remove(x): the first element equal to x removed (ValueError when
\* there is none: the callers test Contains first).
ListRemove(lista, x) ==
    LET k == CHOOSE i \in 1..Len(lista) :
                 lista[i] = x /\ \A j \in 1..(i - 1) : lista[j] # x
    IN SubSeq(lista, 1, k - 1) \o SubSeq(lista, k + 1, Len(lista))

-----------------------------------------------------------------------------
(* Union_SMwithASA.py                                                       *)

\* range(0,19): the number of "0," tokens of a line without ASA record.
ZeroCount == 19
\* withoutFirst2Argument[1:20]
HeaderSliceEnd == 20
\* line_sm[:-7]
ClassSuffixLen == 7

getClass(line) ==
    LET lista == Split(line, COMMA)
        count == Len(lista)
    IN lista[count]

\* lista.remove(class_element) of another_option raises ValueError
RaisesValueError(lista, class_elem) == ~Contains(lista, class_elem)

\* another_option(None, line_sm, class_element) were it to leave out the
\* two identifier fields as well
another_option_sm_noId(line_sm, class_elem) ==
    LET lista == ListRemove(Split(line_sm, COMMA), class_elem)
        RECURSIVE toString(_)
        toString(i) ==
            IF i > Len(lista) THEN <<>>
            ELSE (IF i > 2 THEN Replace(lista[i], NL) \o <<COMMA>> ELSE <<>>)
                 \o toString(i + 1)
    IN toString(1)

\* another_option(None, line_sm, class_element)
another_option_sm(line_sm, class_elem) ==
    LET lista == ListRemove(Split(line_sm, COMMA), class_elem)
        RECURSIVE toString(_)
        toString(i) ==
            IF i > Len(lista) THEN <<>>
            ELSE Replace(lista[i], NL) \o <<COMMA>> \o toString(i + 1)
    IN toString(1)

\* the list another_option(line_asa, None, class_element) removes from
asa_lista(line_asa) == Split(Replace(Replace(line_asa, SPACE), NL), COMMA)

\* the class_element another_option(line_asa, None, ...) removes
asa_class(class_elem) == Replace(Replace(class_elem, SPACE), NL)

\* another_option(line_asa, None, class_element) were it to keep the first
\* element
another_option_asa_keepId(line_asa, class_elem) ==
    LET lista == ListRemove(asa_lista(line_asa), asa_class(class_elem))
        RECURSIVE toString(_)
        toString(i) ==
            IF i > Len(lista) THEN <<>>
            ELSE Replace(lista[i], NL) \o <<COMMA>> \o toString(i + 1)
    IN toString(1)

\* another_option(line_asa, None, class_element)
another_option_asa(line_asa, class_elem) ==
    LET lista == ListRemove(asa_lista(line_asa), asa_class(class_elem))
        RECURSIVE toString(_)
        toString(i) ==
            IF i > Len(lista) THEN <<>>
            ELSE (IF i - 1 > 0 THEN Replace(lista[i], NL) \o <<COMMA>> ELSE <<>>)
                 \o toString(i + 1)
    IN toString(1)

\* line_asa.split(',')[2:20]: the slice that leaves out two names
withoutFirst2ArgumentFrom2(line_asa) ==
    LET l == Split(line_asa, COMMA)
    IN SubSeq(l, 3, Min(HeaderSliceEnd, Len(l)))

\* line_asa.split(',')[1:20]
withoutFirst2Argument(line_asa) ==
    LET l == Split(line_asa, COMMA)
    IN SubSeq(l, 2, Min(HeaderSliceEnd, Len(l)))

\* line_sm[:-7]
withoutClassInMining(line_sm) == SubSeq(line_sm, 1, Len(line_sm) - ClassSuffixLen)

\* the header line initialize writes
HeaderLine(line_sm, line_asa) ==
    LET w == withoutFirst2Argument(line_asa)
        RECURSIVE toString(_)
        toString(i) ==
            IF i > Len(w) THEN <<>> ELSE <<COMMA>> \o w[i] \o toString(i + 1)
    IN withoutClassInMining(line_sm) \o toString(1) \o <<COMMA, "c", "l", "a", "s", "s">>

\* "0," eighteen times: range(0,18)
ZeroFillEighteen ==
    LET RECURSIVE zeros(_)
        zeros(i) == IF i >= ZeroCount - 1 THEN <<>> ELSE <<"0", COMMA>> \o zeros(i + 1)
    IN zeros(0)

\* element_ASA of a record without ASA line: "0," nineteen times
ZeroFill ==
    LET RECURSIVE zeros(_)
        zeros(i) == IF i >= ZeroCount THEN <<>> ELSE <<"0", COMMA>> \o zeros(i + 1)
    IN zeros(0)

\* line_sm.split(',')[1] raises IndexError
RaisesIndexError(line_sm) == Len(Split(line_sm, COMMA)) < 2

\* line_sm.split(',')[1].replace("\"","")
FileNameSm(line_sm) == Replace(Split(line_sm, COMMA)[2], QUOTE)

\* line_asa.split(',')[0], the quotes left in
FileNameAsaRaw(line_asa) == Split(line_asa, COMMA)[1]

\* line_asa.split(',')[0].replace("\"", "")
FileNameAsa(line_asa) == Replace(Split(line_asa, COMMA)[1], QUOTE)

-----------------------------------------------------------------------------
(* The input files.                                                        *)

MaxSm == 2      \* software-metrics data lines per file
MaxAsa == 2     \* static-analysis data lines per file

tPos == <<"p", "o", "s">>
tNeg == <<"n", "e", "g">>
tClass == <<"c", "l", "a", "s", "s">>

JoinComma(fields) ==
    LET RECURSIVE go(_)
        go(i) == IF i > Len(fields) THEN <<>>
                 ELSE (IF i > 1 THEN <<COMMA>> ELSE <<>>) \o fields[i] \o go(i + 1)
    IN go(1)

Line(fields) == JoinComma(fields) \o <<NL>>

\* "id,f,m,class\n", and a header whose last column is not named class
SmHeaders ==
    { Line(<< <<"i", "d">>, <<"f">>, <<"m">>, tClass >>),
      Line(<< <<"i", "d">>, <<"f">>, <<"m">>, <<"c", "l", "s">> >>) }

\* data lines of the software-metrics file, each as wide as its header
SmLines ==
    { Line(<< <<"1">>, <<"a">>, <<"3">>, tPos >>),
      Line(<< <<"2">>, <<QUOTE, "b", QUOTE>>, <<"4">>, tNeg >>),
      Line(<< <<"1">>, <<"a">>, <<"3">>, <<SPACE>> \o tPos >>),
      Line(<< <<"x">> >>) }

\* a last line may lack its newline
SmLastLines ==
    SmLines \cup { JoinComma(<< <<"1">>, <<"a">>, <<"3">>, tPos >>),
                   JoinComma(<< <<"1">>, tPos, <<"3">>, tPos >>) }

SmFiles ==
    { <<h>> \o body :
        h \in SmHeaders,
        body \in UNION { { f \in [1..k -> SmLastLines] :
                             \A i \in 1..(k - 1) : f[i] \in SmLines } : k \in 0..MaxSm } }

\* widths of the static-analysis file
AsaWidths == {20, 21, 22}

\* the names of the ASA header: one letter each, all different
AsaNames == <<"a", "b", "c", "d", "e", "f", "g", "h", "i", "j", "k", "l", "m", "n",
              "o", "p", "q", "r", "s", "t", "u", "v", "w">>

\* "a,b,c,...,class\n", w names
AsaHeader(w) ==
    Line([i \in 1..w |-> IF i = w THEN tClass ELSE <<AsaNames[i]>>])

\* a data line of w fields: identifier, first value, zeros, label
AsaRec(id, v, label, w) ==
    Line([i \in 1..w |-> IF i = 1 THEN id ELSE IF i = 2 THEN v
                         ELSE IF i = w THEN label ELSE <<"0">>])

AsaLines(w) ==
    { AsaRec(<<QUOTE, "a", QUOTE>>, <<SPACE, "7">>, tPos, w),
      AsaRec(<<"a">>, <<"0">>, tNeg, w),
      AsaRec(<<"a">>, tPos, tNeg, w),
      Line(<< <<"z">> >>) }

AsaFiles(w) ==
    { <<AsaHeader(w)>> \o body :
        body \in UNION { [1..k -> AsaLines(w)] : k \in 0..MaxAsa } }

-----------------------------------------------------------------------------
(* initialize(name_csv_sm, name_csv_asa, new_Union)                        *)

InitJoin ==
    /\ \E w \in AsaWidths : csv_asa \in AsaFiles(w)
    /\ csv_sm \in SmFiles
    /\ new_Union = <<>>
    /\ sm_pos = 1
    /\ asa_pos = 1
    /\ pc = "sm_loop"
    /\ error = "none"
    /\ found = FALSE
    /\ flag_sm = TRUE
    /\ flag_asa = TRUE
    /\ number_of_file = 0
    /\ file_name_sm = <<>>
    /\ class_element = <<>>
    /\ element_software_metrics = <<>>

\* the first line of the software-metrics file: the header is written
ReadHeader ==
    /\ pc = "sm_loop"
    /\ sm_pos <= Len(csv_sm)
    /\ flag_sm = TRUE
    /\ LET line_sm == csv_sm[sm_pos]
           line_asa == IF asa_pos <= Len(csv_asa) THEN csv_asa[asa_pos] ELSE <<>>
       IN /\ found' = FALSE
          /\ flag_sm' = FALSE
          /\ asa_pos' = Min(asa_pos + 1, Len(csv_asa) + 1)
          /\ IF flag_asa = TRUE
             THEN /\ flag_asa' = FALSE
                  /\ new_Union' = new_Union \o <<HeaderLine(line_sm, line_asa), <<NL>>>>
             ELSE UNCHANGED <<flag_asa, new_Union>>
    /\ sm_pos' = sm_pos + 1
    /\ UNCHANGED <<csv_sm, csv_asa, pc, error, number_of_file, file_name_sm,
                   class_element, element_software_metrics>>
    /\ UNCHANGED mineVars

\* lines 57-61 of a data line whose identifier can be read
ReadRecord(line_sm) ==
    LET ce == Replace(getClass(line_sm), SPACE)
    IN /\ file_name_sm' = FileNameSm(line_sm)
       /\ class_element' = ce
       /\ IF RaisesValueError(Split(line_sm, COMMA), ce)
          THEN /\ pc' = "failed"
               /\ error' = "ValueError"
               /\ UNCHANGED element_software_metrics
          ELSE /\ pc' = "asa_loop"
               /\ element_software_metrics' = another_option_sm(line_sm, ce)
               /\ UNCHANGED error

\* BeginRecord with the IndexError of a short line swallowed: the line is
\* passed over and the loop goes on
BeginRecordSkip ==
    /\ pc = "sm_loop"
    /\ sm_pos <= Len(csv_sm)
    /\ flag_sm = FALSE
    /\ found' = FALSE
    /\ asa_pos' = Min(2, Len(csv_asa) + 1)
    /\ IF RaisesIndexError(csv_sm[sm_pos])
       THEN /\ sm_pos' = sm_pos + 1
            /\ UNCHANGED <<pc, error, file_name_sm, class_element,
                           element_software_metrics>>
       ELSE /\ ReadRecord(csv_sm[sm_pos])
            /\ UNCHANGED sm_pos
    /\ UNCHANGED <<csv_sm, csv_asa, new_Union, flag_sm, flag_asa, number_of_file>>
    /\ UNCHANGED mineVars

\* a data line of the software-metrics file, up to the scan of the ASA file
BeginRecord ==
    /\ pc = "sm_loop"
    /\ sm_pos <= Len(csv_sm)
    /\ flag_sm = FALSE
    /\ found' = FALSE
    /\ asa_pos' = Min(2, Len(csv_asa) + 1)
    /\ IF RaisesIndexError(csv_sm[sm_pos])
       THEN /\ pc' = "failed"
            /\ error' = "IndexError"
            /\ UNCHANGED <<file_name_sm, class_element, element_software_metrics>>
       ELSE ReadRecord(csv_sm[sm_pos])
    /\ UNCHANGED <<csv_sm, csv_asa, new_Union, sm_pos, flag_sm, flag_asa, number_of_file>>
    /\ UNCHANGED mineVars

\* one line of the ASA file
ScanAsa ==
    /\ pc = "asa_loop"
    /\ asa_pos <= Len(csv_asa)
    /\ LET line_asa == csv_asa[asa_pos]
           file_name_asa == FileNameAsa(line_asa)
       IN IF file_name_sm = file_name_asa
          THEN /\ number_of_file' = number_of_file + 1
               /\ IF RaisesValueError(asa_lista(line_asa), asa_class(class_element))
                  THEN /\ pc' = "failed"
                       /\ error' = "ValueError"
                       /\ UNCHANGED <<found, new_Union>>
                  ELSE /\ found' = TRUE
                       /\ new_Union' = Append(new_Union,
                              element_software_metrics
                              \o another_option_asa(line_asa, class_element)
                              \o class_element)
                       /\ UNCHANGED <<pc, error>>
          ELSE UNCHANGED <<number_of_file, pc, error, found, new_Union>>
    /\ asa_pos' = asa_pos + 1
    /\ UNCHANGED <<csv_sm, csv_asa, sm_pos, flag_sm, flag_asa, file_name_sm,
                   class_element, element_software_metrics>>
    /\ UNCHANGED mineVars

\* the ASA file is exhausted: the line of zeros when no line was found
EndScan ==
    /\ pc = "asa_loop"
    /\ asa_pos > Len(csv_asa)
    /\ IF found = FALSE
       THEN new_Union' = Append(new_Union,
                element_software_metrics \o ZeroFill \o class_element)
       ELSE UNCHANGED new_Union
    /\ pc' = "sm_loop"
    /\ sm_pos' = sm_pos + 1
    /\ UNCHANGED <<csv_sm, csv_asa, asa_pos, error, found, flag_sm, flag_asa,
                   number_of_file, file_name_sm, class_element,
                   element_software_metrics>>
    /\ UNCHANGED mineVars

\* the software-metrics file is exhausted: "BUILD SUCCESS"
Finish ==
    /\ pc = "sm_loop"
    /\ sm_pos > Len(csv_sm)
    /\ pc' = "done"
    /\ UNCHANGED <<csv_sm, csv_asa, new_Union, sm_pos, asa_pos, error, found,
                   flag_sm, flag_asa, number_of_file, file_name_sm, class_element,
                   element_software_metrics>>
    /\ UNCHANGED mineVars

NextJoin == ReadHeader \/ BeginRecord \/ ScanAsa \/ EndScan \/ Finish

-----------------------------------------------------------------------------
(* RepoMining.py                                                            *)

MaxMods == 2    \* modifications a traversal yields
MaxCalls == 2   \* calls made one after the other

\* Python's None, among strings
None == "<None>"

\* str(x)
Str(x) == IF x = None THEN "None" ELSE x

\* getpass.getuser()
user == "UniSa"

\* os.sep
Sep == IF operatingSys = "Windows" THEN "\\" ELSE "/"

\* the directory the process starts in
StartDir == "/PerseveranceTool"

RepoUrl == "https://github.com/Dariucc07/Sometest"

\* the hashes traverse_commits() yields for the repository
RepoCommits == <<"c1", "c2">>

\* the platform's default directory as the file system names it
DesktopDir(sys) ==
    IF sys = "Windows" THEN "C:\\Users\\" \o user \o "\\Desktop"
    ELSE IF sys = "Darwin" THEN "/Users/" \o user \o "/Desktop"
    ELSE "/home/" \o user \o "/Scrivania"

Systems == {"Windows", "Darwin", "Linux", "Java"}

dotJava == <<".", "j", "a", "v", "a">>

\* sub in s
IsSubstring(sub, s) ==
    \E k \in 0..(Len(s) - Len(sub)) : SubSeq(s, k + 1, k + Len(sub)) = sub

\* mod.filename of the modifications
FileNames ==
    { <<"R">> \o dotJava,
      <<"S">> \o dotJava \o <<"x">>,
      <<"N", ".", "m", "d">> }

\* a modification: commit.hash, mod.filename, mod.source_code_before
Modifications ==
    [hash : {RepoCommits[k] : k \in 1..Len(RepoCommits)},
     filename : FileNames,
     source_code_before : {None, "v0"}]

\* isEmptyUrl(self, repo_url)
isEmptyUrl(repo_url) == IF Str(repo_url) = "" \/ repo_url = None THEN TRUE ELSE FALSE

\* isEmptyHash(self, commitHash)
isEmptyHash(commitHash) == IF Str(commitHash) = "" \/ commitHash = None THEN TRUE ELSE FALSE

\* setDefaultPath(self)
setDefaultPath ==
    IF operatingSys = "Windows" THEN "C:\\Users\\" \o user \o "\\Desktop\\"
    ELSE IF operatingSys = "Darwin" THEN "/Users/" \o user \o "/Desktop/"
    ELSE IF operatingSys = "Linux" THEN "/home/" \o user \o "/Scrivania"
    ELSE None

\* os.path.isdir(path), for an absolute path with or without a last separator
isdir(path) == \E d \in fs_dirs : path = d \/ path = d \o Sep

\* the directory an absolute path names
Resolve(path) == CHOOSE d \in fs_dirs : path = d \/ path = d \o Sep

\* getAllCommit(self, repo_url)
getAllCommit(repo_url) == IF ~isEmptyUrl(repo_url) THEN RepoCommits ELSE <<>>

\* setDefaultDir(self): the exception raised ("" when none), the value
\* returned, the directories and the working directory it leaves
setDefaultDir ==
    LET path == setDefaultPath
    IN IF path = None
       THEN [exc |-> "TypeError", ret |-> "", dirs |-> fs_dirs, wd |-> os_cwd]
       ELSE IF ~isdir(path)
       THEN [exc |-> "FileNotFoundError", ret |-> "", dirs |-> fs_dirs, wd |-> os_cwd]
       ELSE LET here == Resolve(path)
            IN IF ~isdir(Str(path) \o "Perseverance")
               THEN IF (here \o Sep \o "Perseverance") \in fs_dirs
                    THEN [exc |-> "FileExistsError", ret |-> "", dirs |-> fs_dirs,
                          wd |-> here]
                    ELSE [exc |-> "", ret |-> here,
                          dirs |-> fs_dirs \cup {here \o Sep \o "Perseverance"},
                          wd |-> here]
               ELSE [exc |-> "", ret |-> Resolve(Str(path) \o "Perseverance"),
                     dirs |-> fs_dirs,
                     wd |-> Resolve(Str(path) \o "Perseverance")]

NoList == <<>>

\* the end of a call: what it was, and what it returned or raised
Ended(c, traversed, kind, str, list) ==
    [fn |-> c.fn, repo_url |-> c.repo_url, commitHash |-> c.commitHash,
     response |-> c.response, traversed |-> traversed,
     kind |-> kind, str |-> str, list |-> list]

NoCall == [fn |-> "none", repo_url |-> None, commitHash |-> None, response |-> FALSE]

InitMining ==
    /\ operatingSys \in Systems
    /\ \E persev \in BOOLEAN :
           fs_dirs = {StartDir}
                     \cup (IF operatingSys = "Java" THEN {} ELSE {DesktopDir(operatingSys)})
                     \cup (IF persev /\ operatingSys # "Java"
                           THEN {DesktopDir(operatingSys) \o Sep \o "Perseverance"}
                           ELSE {})
    /\ fs_files = {}
    /\ os_cwd = StartDir
    /\ mods \in UNION { [1..k -> Modifications] : k \in 0..MaxMods }
    /\ mpc = "idle"
    /\ call = NoCall
    /\ cwd = ""
    /\ allClass = <<>>
    /\ javaFile = None
    /\ mod_pos = 1
    /\ classMined = <<>>
    /\ allCommit = <<>>
    /\ returned = <<>>

\* RepoMining.setDefaultDir(RepoMining)
SetDefaultDirCall ==
    /\ mpc = "idle"
    /\ Len(returned) < MaxCalls
    /\ LET r == setDefaultDir
           c == [fn |-> "setDefaultDir", repo_url |-> None, commitHash |-> None,
                 response |-> FALSE]
       IN /\ fs_dirs' = r.dirs
          /\ os_cwd' = r.wd
          /\ returned' = Append(returned,
                 IF r.exc # "" THEN Ended(c, FALSE, "raised", r.exc, NoList)
                 ELSE Ended(c, FALSE, "path", r.ret, NoList))
    /\ UNCHANGED <<operatingSys, fs_files, mods, mpc, call, cwd, allClass, javaFile,
                   mod_pos, classMined, allCommit>>
    /\ UNCHANGED joinVars

\* lines 42-43 of startMining, called as c: the traversal begins, or
\* setDefaultDir raises (exist catches what startMining raises)
EnterStartMining(c) ==
    LET r == setDefaultDir
    IN /\ fs_dirs' = r.dirs
       /\ os_cwd' = r.wd
       /\ allClass' = <<>>
       /\ javaFile' = None
       /\ mod_pos' = 1
       /\ IF r.exc # ""
          THEN /\ returned' = Append(returned,
                      IF c.fn = "exist" THEN Ended(c, FALSE, "None", "", NoList)
                      ELSE Ended(c, FALSE, "raised", r.exc, NoList))
               /\ UNCHANGED <<mpc, call, cwd>>
          ELSE /\ mpc' = "traverse"
               /\ call' = c
               /\ cwd' = r.ret
               /\ UNCHANGED returned

\* RepoMining.startMining(RepoMining, repo_url, commitHash)
StartMiningCall ==
    /\ mpc = "idle"
    /\ Len(returned) < MaxCalls
    /\ EnterStartMining([fn |-> "startMining", repo_url |-> RepoUrl,
                         commitHash |-> RepoCommits[1], response |-> TRUE])
    /\ UNCHANGED <<operatingSys, fs_files, mods, classMined, allCommit>>
    /\ UNCHANGED joinVars

\* RepoMining.exist(RepoMining, repo_url, commitHash); response is what
\* requests.get answers
ExistCall(repo_url, commitHash, response) ==
    /\ mpc = "idle"
    /\ Len(returned) < MaxCalls
    /\ LET c == [fn |-> "exist", repo_url |-> repo_url, commitHash |-> commitHash,
                 response |-> response]
       IN IF ~isEmptyUrl(repo_url)
          THEN IF isEmptyHash(commitHash)
               THEN /\ IF response
                       THEN /\ allCommit' = getAllCommit(repo_url)
                            /\ returned' = Append(returned,
                                   Ended(c, FALSE, "list", "", getAllCommit(repo_url)))
                       ELSE /\ returned' = Append(returned,
                                   Ended(c, FALSE, "None", "", NoList))
                            /\ UNCHANGED allCommit
                    /\ UNCHANGED <<fs_dirs, os_cwd, mpc, call, cwd, allClass, javaFile,
                                   mod_pos>>
               ELSE IF response
                    THEN /\ EnterStartMining(c)
                         /\ UNCHANGED allCommit
                    ELSE /\ returned' = Append(returned,
                                Ended(c, FALSE, "None", "", NoList))
                         /\ UNCHANGED <<fs_dirs, os_cwd, mpc, call, cwd, allClass,
                                        javaFile, mod_pos, allCommit>>
          ELSE /\ returned' = Append(returned, Ended(c, FALSE, "None", "", NoList))
               /\ UNCHANGED <<fs_dirs, os_cwd, mpc, call, cwd, allClass, javaFile,
                              mod_pos, allCommit>>
    /\ UNCHANGED <<operatingSys, fs_files, mods, classMined>>
    /\ UNCHANGED joinVars

\* one modification of the traversal: lines 45-55 of startMining
MineModification ==
    /\ mpc = "traverse"
    /\ mod_pos <= Len(mods)
    /\ LET mod == mods[mod_pos]
           folder == os_cwd \o Sep \o mod.hash
       IN IF IsSubstring(dotJava, mod.filename)
          THEN /\ fs_dirs' = IF folder \notin fs_dirs THEN fs_dirs \cup {folder}
                             ELSE fs_dirs
               /\ IF mod.source_code_before # None
                  THEN /\ fs_files' =
                              {f \in fs_files :
                                   ~(f.dir = folder /\ f.name = mod.filename)}
                              \cup {[dir |-> folder, name |-> mod.filename,
                                     content |-> mod.source_code_before]}
                       /\ javaFile' = folder \o Sep \o "<file>"
                       /\ allClass' = Append(allClass, mod.filename)
                  ELSE UNCHANGED <<fs_files, javaFile, allClass>>
               /\ os_cwd' = cwd
          ELSE UNCHANGED <<fs_dirs, fs_files, javaFile, allClass, os_cwd>>
    /\ mod_pos' = mod_pos + 1
    /\ UNCHANGED <<operatingSys, mods, mpc, call, cwd, classMined, allCommit, returned>>
    /\ UNCHANGED joinVars

\* the traversal is over: javaFile.close() and return allClass (lines
\* 56-57); exist keeps what startMining returns and catches what it raises
EndMining ==
    /\ mpc = "traverse"
    /\ mod_pos > Len(mods)
    /\ IF javaFile = None
       THEN /\ returned' = Append(returned,
                   IF call.fn = "exist" THEN Ended(call, TRUE, "None", "", NoList)
                   ELSE Ended(call, TRUE, "raised", "UnboundLocalError", NoList))
            /\ UNCHANGED classMined
       ELSE /\ returned' = Append(returned, Ended(call, TRUE, "list", "", allClass))
            /\ classMined' = IF call.fn = "exist" THEN allClass ELSE classMined
    /\ mpc' = "idle"
    /\ call' = NoCall
    /\ UNCHANGED <<operatingSys, fs_dirs, fs_files, os_cwd, mods, cwd, allClass,
                   javaFile, mod_pos, allCommit>>
    /\ UNCHANGED joinVars

NextMining ==
    \/ SetDefaultDirCall
    \/ StartMiningCall
    \/ \E repo_url \in {None, "", RepoUrl}, commitHash \in {None, "", RepoCommits[1]},
          response \in BOOLEAN : ExistCall(repo_url, commitHash, response)
    \/ MineModification
    \/ EndMining

\* RepoMining at rest, while initialize runs
MiningIdle ==
    /\ operatingSys = "Darwin"
    /\ fs_dirs = {StartDir}
    /\ fs_files = {}
    /\ os_cwd = StartDir
    /\ mods = <<>>
    /\ mpc = "idle"
    /\ call = NoCall
    /\ cwd = ""
    /\ allClass = <<>>
    /\ javaFile = None
    /\ mod_pos = 1
    /\ classMined = <<>>
    /\ allCommit = <<>>
    /\ returned = <<>>

\* initialize not run, while RepoMining is called
JoinIdle ==
    /\ csv_sm = <<>>
    /\ csv_asa = <<>>
    /\ new_Union = <<>>
    /\ sm_pos = 1
    /\ asa_pos = 1
    /\ pc = "off"
    /\ error = "none"
    /\ found = FALSE
    /\ flag_sm = TRUE
    /\ flag_asa = TRUE
    /\ number_of_file = 0
    /\ file_name_sm = <<>>
    /\ class_element = <<>>
    /\ element_software_metrics = <<>>

Init == InitJoin /\ MiningIdle

Next == NextJoin

Spec == Init /\ [][Next]_vars

InitRepoMining == JoinIdle /\ InitMining

SpecMining == InitRepoMining /\ [][NextMining]_vars

-----------------------------------------------------------------------------
(* What the claims are stated with: the files read as records.             *)

SmData == 2..Len(csv_sm)
AsaData == 2..Len(csv_asa)
DataWritten == 3..Len(new_Union)

Fields(line) == Split(line, COMMA)
\* the number of fields of a line: one more than its commas
NumFields(line) == Cardinality({k \in 1..Len(line) : line[k] = COMMA}) + 1
LastField(line) == LET f == Fields(line) IN f[Len(f)]
Strip(s) == Replace(Replace(s, SPACE), NL)

\* nineteen comma-terminated "0" tokens
Zeros19 == [k \in 1..(2 * 19) |-> IF k % 2 = 1 THEN "0" ELSE COMMA]

\* record i of the software-metrics file and record j of the ASA file bear
\* the same identifier
IdMatch(i, j) ==
    /\ NumFields(csv_sm[i]) >= 2
    /\ Replace(Fields(csv_sm[i])[2], QUOTE) = Replace(Fields(csv_asa[j])[1], QUOTE)

MatchesOf(i) == {j \in AsaData : IdMatch(i, j)}

FirstIndex(l, x) == CHOOSE k \in 1..Len(l) : l[k] = x /\ \A j \in 1..(k - 1) : l[j] # x
Without(l, k) == [j \in 1..(Len(l) - 1) |-> IF j < k THEN l[j] ELSE l[j + 1]]
AllButLast(l) == SubSeq(l, 1, Len(l) - 1)

CommaTerminated(l) ==
    LET RECURSIVE go(_)
        go(i) == IF i > Len(l) THEN <<>> ELSE Replace(l[i], NL) \o <<COMMA>> \o go(i + 1)
    IN go(1)

IsPrefix(p, s) == Len(p) <= Len(s) /\ SubSeq(s, 1, Len(p)) = p
EndsWith(s, t) == Len(t) <= Len(s) /\ SubSeq(s, Len(s) - Len(t) + 1, Len(s)) = t

-----------------------------------------------------------------------------
(* The claims about initialize.                                            *)

\* the software-metrics record i is written at the head of string c, with
\* its class label at the end
EmittedFor(i, c) ==
    LET rf == Fields(csv_sm[i])
        cf == Fields(c)
    IN /\ Len(cf) >= Len(rf)
       /\ SubSeq(cf, 1, Len(rf) - 1) = AllButLast(rf)
       /\ Strip(cf[Len(cf)]) = Strip(rf[Len(rf)])

\* C1: once initialize has ended, on a software-metrics file whose every
\* data line has an identifier, every software-metrics record R has an
\* output record with R's class label and, leading it, R's other fields in
\* their order.
C1_EveryRecordEmitted ==
    (pc \in {"done", "failed"} /\ \A i \in SmData : NumFields(csv_sm[i]) >= 2)
        => \A i \in SmData : \E k \in DataWritten : EmittedFor(i, new_Union[k])

\* the records initialize writes for record i: one per ASA record bearing
\* its identifier, one when there is none
RecordsDue(i) == IF MatchesOf(i) = {} THEN 1 ELSE Cardinality(MatchesOf(i))

SumRecordsDue ==
    LET RECURSIVE sum(_)
        sum(i) == IF i > Len(csv_sm) THEN 0 ELSE RecordsDue(i) + sum(i + 1)
    IN sum(2)

\* C2 (as claimed): after the join has completed, the output holds exactly
\* one data record per software-metrics data record.
C2_ExactlyOnePerRecord ==
    pc = "done" => Cardinality(DataWritten) = Cardinality(SmData)

\* C2 (amended): after the join has completed, the output holds, for every
\* software-metrics data record, one data record per ASA record bearing its
\* identifier, and one data record when no ASA record bears it: exactly one
\* when at most one ASA record matches, never none.
C2_RecordCount ==
    pc = "done" =>
        /\ Cardinality(DataWritten) = SumRecordsDue
        /\ Cardinality(DataWritten) >= Cardinality(SmData)
        /\ (\A i \in SmData : Cardinality(MatchesOf(i)) <= 1)
               => Cardinality(DataWritten) = Cardinality(SmData)

\* the join has completed on two records, one of them written twice
C2_Witness ==
    /\ pc = "done"
    /\ Cardinality(SmData) = 2
    /\ \E i \in SmData : Cardinality(MatchesOf(i)) = 2
    /\ Cardinality(DataWritten) = 3

AsaFields(j) == Fields(Strip(csv_asa[j]))

\* C4: for a software-metrics record R that exactly one ASA record A
\* matches, the ASA portion of the record written is A's fields without A's
\* own class label (its last field), in their order; the portion is read
\* with or without A's identifier, and the join does not end in
\* another_option on A without writing R.
C4_OwnLabelRemoved ==
    \A i \in SmData :
        (/\ i = sm_pos
         /\ NumFields(csv_sm[i]) >= 2
         /\ Cardinality(MatchesOf(i)) = 1) =>
            LET j == CHOOSE m \in MatchesOf(i) : TRUE
                own == AllButLast(AsaFields(j))
            IN /\ (pc = "asa_loop" /\ found = TRUE) =>
                      new_Union[Len(new_Union)] \in
                          { element_software_metrics \o CommaTerminated(own)
                                \o class_element,
                            element_software_metrics \o CommaTerminated(Tail(own))
                                \o class_element }
               /\ ~(pc = "failed" /\ asa_pos > j)

\* the software-metrics header ends in the class column
EndsInClass(line) == EndsWith(line, <<COMMA>> \o tClass \o <<NL>>)

\* C5 (as claimed): the header written has (software-metrics header field
\* count - 1) + 18 + 1 fields.
C5_HeaderCount18 ==
    (Len(new_Union) >= 1 /\ EndsInClass(csv_sm[1]) /\ NumFields(csv_asa[1]) >= 20)
        => NumFields(new_Union[1]) = (NumFields(csv_sm[1]) - 1) + 18 + 1

\* C5 (amended): for a software-metrics header ending in the class column
\* and an ASA header of at least 20 names, the header written has
\* (software-metrics header field count - 1) + 19 + 1 fields: the
\* software-metrics names without the class column, the ASA header's names
\* 2 to 20, then "class".
C5_HeaderCount19 ==
    (Len(new_Union) >= 1 /\ EndsInClass(csv_sm[1]) /\ NumFields(csv_asa[1]) >= 20)
        => LET names == Fields(csv_asa[1])
           IN /\ NumFields(new_Union[1]) = (NumFields(csv_sm[1]) - 1) + 19 + 1
              /\ Fields(new_Union[1]) = AllButLast(Fields(csv_sm[1]))
                                        \o [k \in 1..19 |-> names[k + 1]]
                                        \o <<tClass>>

\* the header is written from an ASA header of more than 20 names
C5_Witness ==
    /\ Len(new_Union) >= 2
    /\ EndsInClass(csv_sm[1])
    /\ NumFields(csv_asa[1]) > 20
    /\ new_Union[2] = <<NL>>

\* the fields of software-metrics record i without the first field equal
\* to its class label (spaces stripped), each followed by a comma
SmPortion(i) ==
    LET f == Fields(csv_sm[i])
    IN CommaTerminated(Without(f, FirstIndex(f, Replace(f[Len(f)], SPACE))))

\* the fields of ASA record j without the first field equal to the class
\* label of software-metrics record i, then without the first field left
AsaPortion(j, i) ==
    LET g == AsaFields(j)
    IN CommaTerminated(Tail(Without(g, FirstIndex(g, Strip(LastField(csv_sm[i]))))))

C7_AbortOnAnyShortLine ==
    pc = "done" =>
        /\ \A i \in SmData : NumFields(csv_sm[i]) >= 2
        /\ SmData # {} => \A j \in AsaData : NumFields(csv_asa[j]) >= 2

\* C7 (amended): the join never completes on a software-metrics file with
\* a data line of fewer than two fields: it ends at that line, in a failure
\* (IndexError) that nothing follows. ASA lines are not held to a field
\* count: one that bears no record's identifier is passed over.
C7_AbortOnShortSmLine ==
    /\ pc = "done" => \A i \in SmData : NumFields(csv_sm[i]) >= 2
    /\ error = "IndexError" => (pc = "failed" /\ NumFields(csv_sm[sm_pos]) < 2)
    /\ (pc = "sm_loop" /\ sm_pos > 1) =>
           \A i \in 2..(sm_pos - 1) : NumFields(csv_sm[i]) >= 2
    /\ pc = "failed" => ~ENABLED Next

\* the join has ended at a short line after it wrote a record
C7_Witness ==
    /\ pc = "failed"
    /\ error = "IndexError"
    /\ sm_pos = 3
    /\ Len(new_Union) >= 3

\* every record of either file is as wide as the header of its file
WidthsAgree ==
    /\ \A i \in SmData : NumFields(csv_sm[i]) = NumFields(csv_sm[1])
    /\ \A j \in AsaData : NumFields(csv_asa[j]) = NumFields(csv_asa[1])

\* C10 (as claimed): when every record is as wide as the header of its
\* file (the software-metrics header ending in the class column, the ASA
\* header of at least 20 names), every data record written has as many
\* fields as the header written.
C10_SchemaAnyWidth ==
    (WidthsAgree /\ EndsInClass(csv_sm[1]) /\ NumFields(csv_asa[1]) >= 20) =>
        \A k \in DataWritten : NumFields(new_Union[k]) = NumFields(new_Union[1])

\* C10 (amended): when every record is as wide as the header of its file,
\* the software-metrics header ends in the class column and the ASA header
\* has 21 names (the identifier, 19 values, the class label), every data
\* record written has as many fields as the header written.
C10_Schema21 ==
    (WidthsAgree /\ EndsInClass(csv_sm[1]) /\ NumFields(csv_asa[1]) = 19 + 2) =>
        \A k \in DataWritten : NumFields(new_Union[k]) = NumFields(new_Union[1])

\* the join has completed with a record of zeros and a record of ASA values
C10_Witness ==
    /\ pc = "done"
    /\ WidthsAgree
    /\ EndsInClass(csv_sm[1])
    /\ NumFields(csv_asa[1]) = 19 + 2
    /\ \E i \in SmData : MatchesOf(i) = {}
    /\ \E i \in SmData : MatchesOf(i) # {}
    /\ Cardinality(DataWritten) >= 2

-----------------------------------------------------------------------------
(* The claims about RepoMining.                                            *)

\* the modification is of a .java source file whose content before it exists
Qualifies(m) == EndsWith(m.filename, dotJava) /\ m.source_code_before # None

\* the file names of the modifications that qualify, in traversal order
QualifyingNames ==
    LET q == SelectSeq(mods, Qualifies)
    IN [k \in 1..Len(q) |-> q[k].filename]

\* the call was startMining, or exist on a repository and a commit hash
\* that exist
MinesValidCommit(e) ==
    \/ e.fn = "startMining"
    \/ /\ e.fn = "exist"
       /\ e.repo_url = RepoUrl
       /\ e.commitHash = RepoCommits[1]
       /\ e.response = TRUE

\* C8: every call of startMining, or of exist with a repository and a
\* commit hash that exist, that traversed the commits returns the list, in
\* traversal order, of the file names of the modifications of .java source
\* files with content before the modification (the empty list when there is
\* none), and each of them is written in a folder named after its commit
\* hash.
C8_ReturnsMinedFiles ==
    \A k \in 1..Len(returned) :
        (returned[k].traversed /\ MinesValidCommit(returned[k])) =>
            /\ returned[k].kind = "list"
            /\ returned[k].list = QualifyingNames
            /\ \A n \in 1..Len(mods) :
                   Qualifies(mods[n]) =>
                       \E f \in fs_files, d \in fs_dirs :
                           /\ f.name = mods[n].filename
                           /\ f.dir = d \o Sep \o mods[n].hash

\* the "Perseverance" folder of the default directory
PerseveranceDir == DesktopDir(operatingSys) \o Sep \o "Perseverance"

\* C9: on a platform setDefaultPath knows, every call of setDefaultDir
\* returns the path of the "Perseverance" folder of the default directory,
\* whether or not the folder existed; when the call has just ended the
\* folder exists and is the working directory; two calls in a row return
\* the same path.
C9_ReturnsPerseveranceDir ==
    operatingSys \in {"Windows", "Darwin", "Linux"} =>
        /\ \A k \in 1..Len(returned) :
               returned[k].fn = "setDefaultDir" =>
                   /\ returned[k].kind = "path"
                   /\ returned[k].str = PerseveranceDir
        /\ (mpc = "idle" /\ returned # <<>>
                /\ returned[Len(returned)].fn = "setDefaultDir") =>
               /\ PerseveranceDir \in fs_dirs
               /\ os_cwd = PerseveranceDir
        /\ \A k \in 1..(Len(returned) - 1) :
               (returned[k].fn = "setDefaultDir" /\ returned[k + 1].fn = "setDefaultDir")
                   => returned[k] = returned[k + 1]

====
